---- MODULE Spec2Model ----
(***************************************************************************)
(* Job submission / deduplication / status tracking of the NeDRex API      *)
(* routers (nedrexapi/routers/*.py).  One behaviour follows one job        *)
(* family (families share no state): its Mongo collection, its lock, the   *)
(* submit handler run by concurrent workers and the background runner.     *)
(***************************************************************************)
EXTENDS Integers, Sequences, FiniteSets, TLC

VARIABLES
    fam,         \* the job family this behaviour follows
    store,       \* the family's Mongo collection: documents in insertion order
    lock,        \* the family lock objects: lock id -> holder
    staticLock,  \* holder of the static-resource Redlock used by the family
    staticFlag,  \* _STATUS["static-ranking"] / _STATUS["static-validation"]
    calls,       \* the submit calls: pc, worker process, canonical request, uid
    tasks,       \* background tasks (runner executions) in scheduling order
    nextUid,     \* number of uuid4() values drawn so far
    builds,      \* history: static-resource build subprocesses that exited 0
    written,     \* history: the status values written to each uid's entry
    overlap,     \* history: some submit call began while another was in progress
    raw,         \* the request bodies handed to the submit handler, in order
    ret,         \* what the submit handler returned for each: a uid, 0 if it raised
    resp,        \* the last status / download query and its response
    rank,        \* a ranking output file, the N asked for and what the runner kept
    skippedUnbuilt  \* history: a static-file call returned at the flag check
                    \* while no build had exited 0

vars == <<fam, store, lock, staticLock, staticFlag, calls, tasks, nextUid, builds,
          written, overlap, raw, ret, resp, rank, skippedUnbuilt>>

----------------------------------------------------------------------------
\* Bounds of the model

MaxCalls == 2      \* submit calls per behaviour
MaxKeys  == 2      \* distinct canonical requests a client may send
NumProcs == 2      \* worker processes sharing the store and Redis
MaxJobs  == 2      \* documents the collection may come to hold
MaxResubmits == 1  \* administrative resubmit calls per behaviour
MaxRuns  == 2      \* runner executions scheduled per behaviour

Calls == 1..MaxCalls
Keys  == 1..MaxKeys
Procs == 1..NumProcs
Uids  == 1..MaxJobs

----------------------------------------------------------------------------
\* Families and their properties

Families ==
    {"trustrank", "closeness", "must", "domino", "kpm", "robust",
     "validation", "bicon", "diamond", "graphs"}

\* Families whose lock is a multiprocessing.Lock() created at import time in
\* each worker process, instead of a Redlock on the shared Redis.
ProcessLocalLockFamilies == {"diamond", "graphs"}

\* Families whose runner first calls generate_*_static_files().
StaticFamilies == {"trustrank", "closeness", "validation"}

\* Families whose submit handler does find_one and insert_one in one lock hold.
SingleHoldRedlockFamilies ==
    {"trustrank", "closeness", "must", "domino", "kpm", "robust", "validation"}

\* Families resubmit_job knows: the keys of KEEP_KEYS.
ResubmitFamilies ==
    {"validation", "trustrank", "closeness", "must", "diamond", "graphs", "bicon"}

ValidationTypes == {"joint", "module", "drug"}

\* The graph builder adds the database version to its query; ver = 1 stands
\* for a document or query that has the "version" field, 0 for one without.
VersionField(f) == IF f = "graphs" THEN 1 ELSE 0

\* Canonical requests of a family.  The validation collection is shared by
\* three request types; validation_type is a field of the record (one
\* parameter set per type is enough to have equal and different records).
ReqsOf(f) ==
    IF f = "validation"
    THEN [vt : ValidationTypes, key : {1}, ver : {0}]
    ELSE [vt : {"none"}, key : Keys, ver : {VersionField(f)}]

\* A parameter set the handler rejects (no seeds, n missing, edges not in
\* {all, limited}, permutations out of range, ...): key 0.
InvalidReq(f) ==
    [vt |-> IF f = "validation" THEN "joint" ELSE "none", key |-> 0, ver |-> VersionField(f)]

\* The parameter checks at the head of a submit handler.
IsValidAlways(r) == TRUE
IsValid(r) == r.key # 0

\* The identity of the lock object a worker of process p uses for family f:
\* 0 is the lock held in Redis, p the lock object private to process p.
LockOfPrivate(f, p) == p
LockOf(f, p) == IF f \in ProcessLocalLockFamilies THEN p ELSE 0

LockIds == 0..NumProcs

Free == <<"free", 0>>
CallId(c) == <<"call", c>>
TaskId(t) == <<"task", t>>

\* The status value the runner writes when it starts and when it succeeds.
RunningStatus(f)   == IF f = "graphs" THEN "building" ELSE "running"
CompletedStatus(f) == IF f = "must" THEN "comleted" ELSE "completed"

----------------------------------------------------------------------------
\* The collection: find_one, insert_one, update_one

\* Index of the first document whose canonical request equals r, 0 if none.
FindOneNever(s, r) == 0
FindOne(s, r) ==
    IF \E i \in 1..Len(s) : s[i].req = r
    THEN CHOOSE i \in 1..Len(s) : s[i].req = r /\ \A j \in 1..(i-1) : s[j].req # r
    ELSE 0

\* Index of the first document with the given uid, 0 if none.
FindUid(s, u) ==
    IF \E i \in 1..Len(s) : s[i].uid = u
    THEN CHOOSE i \in 1..Len(s) : s[i].uid = u /\ \A j \in 1..(i-1) : s[j].uid # u
    ELSE 0

NewDoc(u, r) ==
    [uid |-> u, req |-> r, status |-> "submitted", error |-> "absent", result |-> FALSE]

\* update_one({"uid": u}, {"$set": {"status": st}}): other fields are kept.
SetStatus(s, u, st) ==
    LET i == FindUid(s, u) IN
    IF i = 0 THEN s ELSE [s EXCEPT ![i].status = st]

\* update_one({"uid": u}, {"$set": {"status": st, "error": e}})
SetStatusError(s, u, st, e) ==
    LET i == FindUid(s, u) IN
    IF i = 0 THEN s ELSE [s EXCEPT ![i].status = st, ![i].error = e]

\* update_one({"uid": u}, {"$set": {"status": st, "results": ...}})
SetStatusResult(s, u, st, hasResult) ==
    LET i == FindUid(s, u) IN
    IF i = 0 THEN s
    ELSE [s EXCEPT ![i].status = st, ![i].result = (s[i].result \/ hasResult)]

StatusIn(s, u) ==
    LET i == FindUid(s, u) IN IF i = 0 THEN "none" ELSE s[i].status

\* History of status writes; a write that matches no document writes nothing.
Record(w, s, u, st) ==
    IF FindUid(s, u) = 0 THEN w ELSE [w EXCEPT ![u] = Append(@, st)]

----------------------------------------------------------------------------
\* Initial state: empty collection, all locks free, nothing built.

NoQuery == [kind |-> "none", uid |-> 0, code |-> 0, doc |-> <<>>, file |-> FALSE]

NoRanking == [rows |-> <<>>, N |-> 0, outcome |-> "none", keep |-> <<>>]

IdleCall == [pc |-> "idle", proc |-> 1, req |-> [vt |-> "none", key |-> 1, ver |-> 0], uid |-> 0]

Init ==
    /\ fam \in Families
    /\ store = <<>>
    /\ lock = [l \in LockIds |-> Free]
    /\ staticLock = Free
    /\ staticFlag = "unset"
    /\ calls = [c \in Calls |-> IdleCall]
    /\ tasks = <<>>
    /\ nextUid = 0
    /\ builds = 0
    /\ written = [u \in Uids |-> <<>>]
    /\ overlap = FALSE
    /\ raw = <<>>
    /\ ret = <<>>
    /\ resp = NoQuery
    /\ rank = NoRanking
    /\ skippedUnbuilt = FALSE

----------------------------------------------------------------------------
\* Background tasks

\* A runner execution scheduled by add_task for uid u in process p.  re tells
\* that resubmit_job scheduled it and from the status it found in the entry;
\* endStatus is the entry's status when the wrapper returned.
NewTask(u, p, re, from) ==
    [uid |-> u, proc |-> p,
     pc |-> IF fam \in StaticFamilies THEN "static" ELSE "begin",
     rc |-> -1, exc |-> "none", payload |-> FALSE,
     wroteRunning |-> FALSE, raised |-> FALSE,
     re |-> re, from |-> from, endStatus |-> "none"]

----------------------------------------------------------------------------
\* Submit handlers (trustrank_submit, closeness_submit, must_submit, ...)

InProgress(c) == calls[c].pc \notin {"idle", "done", "rejected"}

\* Worker processes are interchangeable: a call runs in a process already in
\* use or in the next unused one.
UsedProcs ==
    {calls[d].proc : d \in {e \in Calls : calls[e].pc # "idle"}}
        \cup {tasks[t].proc : t \in 1..Len(tasks)}
ProcChoices == {p \in Procs : \A q \in Procs : q < p => q \in UsedProcs}

\* Runner executions scheduled so far, and those the submit calls in progress
\* may still schedule.
Runs == Len(tasks) + Cardinality({d \in Calls : InProgress(d)})

\* The head of a submit handler: the parameter checks, which raise
\* HTTPException for an invalid request, then the canonical query is built.
\* A request that may add a document is only sent while the collection has
\* room for it (MaxJobs) and for its runner (MaxRuns).
SubmitBegin(c, p, r) ==
    /\ calls[c].pc = "idle"
    /\ \A d \in Calls : d < c => calls[d].pc # "idle"
    /\ p \in ProcChoices
    /\ r \in ReqsOf(fam) \cup {InvalidReq(fam)}
    /\ \/ r = InvalidReq(fam)
       \/ FindOne(store, r) # 0
       \/ /\ Len(store) + Cardinality({d \in Calls : InProgress(d)}) < MaxJobs
          /\ Runs < MaxRuns
    /\ calls' = [calls EXCEPT ![c] = [pc |-> IF IsValid(r) THEN "acquire" ELSE "rejected",
                                      proc |-> p, req |-> r, uid |-> 0]]
    /\ overlap' = (overlap \/ \E d \in Calls : InProgress(d))
    /\ UNCHANGED <<fam, raw, ret, resp, rank, skippedUnbuilt, store, lock, staticLock, staticFlag, tasks, nextUid, builds, written>>

\* The end of a "with _X_COLL_LOCK:" block, left by its last statement, by
\* return or by an exception: the context manager releases the lock.
LeaveBlockHolding(l, f, p) == l
LeaveBlock(l, f, p) == [l EXCEPT ![LockOf(f, p)] = Free]

\* A submit call that found an entry does nothing to it.
AfterHitReset(s, u) == SetStatus(s, u, "submitted")
AfterHit(s, u) == s

\* with _X_COLL_LOCK:  (entering the block)
SubmitAcquire(c) ==
    /\ calls[c].pc = "acquire"
    /\ lock[LockOf(fam, calls[c].proc)] = Free
    /\ lock' = [lock EXCEPT ![LockOf(fam, calls[c].proc)] = CallId(c)]
    /\ calls' = [calls EXCEPT ![c].pc = "find"]
    /\ UNCHANGED <<fam, raw, ret, resp, rank, skippedUnbuilt, store, staticLock, staticFlag, tasks, nextUid, builds, written, overlap>>

\* result = _X_COLL.find_one(query), in every family but BiCoN
SubmitFind(c) ==
    /\ calls[c].pc = "find"
    /\ fam # "bicon"
    /\ LET i == FindOne(store, calls[c].req) IN
       calls' = [calls EXCEPT ![c].pc = IF i = 0 THEN "insert" ELSE "hit",
                              ![c].uid = IF i = 0 THEN 0 ELSE store[i].uid]
    /\ UNCHANGED <<fam, raw, ret, resp, rank, skippedUnbuilt, store, lock, staticLock, staticFlag, tasks, nextUid, builds, written, overlap>>

\* if result: uid = result["uid"]   (leaving the block, return uid)
SubmitHit(c) ==
    /\ calls[c].pc = "hit"
    /\ store' = AfterHit(store, calls[c].uid)
    /\ lock' = LeaveBlock(lock, fam, calls[c].proc)
    /\ calls' = [calls EXCEPT ![c].pc = "done"]
    /\ UNCHANGED <<fam, raw, ret, resp, rank, skippedUnbuilt, staticLock, staticFlag, tasks, nextUid, builds, written, overlap>>

\* else: uid = uuid4(); insert_one(query); background_tasks.add_task(wrapper, uid)
\* (leaving the block, return uid)
SubmitInsert(c) ==
    /\ calls[c].pc = "insert"
    /\ LET u == nextUid + 1 IN
       /\ nextUid' = u
       /\ store' = Append(store, NewDoc(u, calls[c].req))
       /\ written' = [written EXCEPT ![u] = <<"submitted">>]
       /\ tasks' = Append(tasks, NewTask(u, calls[c].proc, FALSE, "none"))
       /\ calls' = [calls EXCEPT ![c].pc = "done", ![c].uid = u]
    /\ lock' = LeaveBlock(lock, fam, calls[c].proc)
    /\ UNCHANGED <<fam, raw, ret, resp, rank, skippedUnbuilt, staticLock, staticFlag, builds, overlap>>

\* bicon_submit: with _BICON_COLL_LOCK: existing = find_one(query)
\* The block ends after the lookup; "if existing: return" runs outside it.
BiconFind(c) ==
    /\ calls[c].pc = "find"
    /\ fam = "bicon"
    /\ LET i == FindOne(store, calls[c].req) IN
       /\ calls' = [calls EXCEPT ![c].pc = IF i = 0 THEN "upload" ELSE "done",
                                 ![c].uid = IF i = 0 THEN 0 ELSE store[i].uid]
       /\ store' = IF i = 0 THEN store ELSE AfterHit(store, store[i].uid)
    /\ lock' = LeaveBlock(lock, fam, calls[c].proc)
    /\ UNCHANGED <<fam, raw, ret, resp, rank, skippedUnbuilt, staticLock, staticFlag, tasks, nextUid, builds, written, overlap>>

\* bicon_submit: the upload is copied, then with _BICON_COLL_LOCK: (second hold)
BiconAcquireAgain(c) ==
    /\ calls[c].pc = "upload"
    /\ lock[LockOf(fam, calls[c].proc)] = Free
    /\ lock' = [lock EXCEPT ![LockOf(fam, calls[c].proc)] = CallId(c)]
    /\ calls' = [calls EXCEPT ![c].pc = "bicon_insert"]
    /\ UNCHANGED <<fam, raw, ret, resp, rank, skippedUnbuilt, store, staticLock, staticFlag, tasks, nextUid, builds, written, overlap>>

\* bicon_submit: insert_one(query); the block ends
BiconInsert(c) ==
    /\ calls[c].pc = "bicon_insert"
    /\ LET u == nextUid + 1 IN
       /\ nextUid' = u
       /\ store' = Append(store, NewDoc(u, calls[c].req))
       /\ written' = [written EXCEPT ![u] = <<"submitted">>]
       /\ calls' = [calls EXCEPT ![c].pc = "schedule", ![c].uid = u]
    /\ lock' = LeaveBlock(lock, fam, calls[c].proc)
    /\ UNCHANGED <<fam, raw, ret, resp, rank, skippedUnbuilt, staticLock, staticFlag, tasks, builds, overlap>>

\* bicon_submit: background_tasks.add_task(run_bicon_wrapper, uid); return uid
BiconSchedule(c) ==
    /\ calls[c].pc = "schedule"
    /\ tasks' = Append(tasks, NewTask(calls[c].uid, calls[c].proc, FALSE, "none"))
    /\ calls' = [calls EXCEPT ![c].pc = "done"]
    /\ UNCHANGED <<fam, raw, ret, resp, rank, skippedUnbuilt, store, lock, staticLock, staticFlag, nextUid, builds, written, overlap>>

Submit ==
    \/ \E c \in Calls, p \in Procs :
         \E r \in ReqsOf(fam) \cup {InvalidReq(fam)} : SubmitBegin(c, p, r)
    \/ \E c \in Calls : SubmitAcquire(c)
    \/ \E c \in Calls : SubmitFind(c)
    \/ \E c \in Calls : SubmitHit(c)
    \/ \E c \in Calls : SubmitInsert(c)
    \/ \E c \in Calls : BiconFind(c)
    \/ \E c \in Calls : BiconAcquireAgain(c)
    \/ \E c \in Calls : BiconInsert(c)
    \/ \E c \in Calls : BiconSchedule(c)

----------------------------------------------------------------------------
\* Runners (run_trustrank_wrapper / run_trustrank, run_diamond_wrapper, ...)

Tasks == 1..Len(tasks)

ReqOfUid(u) ==
    LET i == FindUid(store, u) IN
    IF i = 0 THEN [vt |-> "none", key |-> 1, ver |-> 0] ELSE store[i].req

\* str(E) of the exceptions a runner of the family can raise: "empty" where
\* the code raises Exception(), fails an assert or exhausts next(reader).
RaiseKinds(f) ==
    IF f \in {"bicon", "kpm", "trustrank", "closeness"} THEN {"msg", "empty"} ELSE {"msg"}

\* Where the runner goes once the external computation has returned code rc.
AfterReturnIgnoring(f, vt, rc) == "post"
AfterReturn(f, vt, rc) ==
    CASE f = "graphs" -> "wdone"
      [] f = "validation" /\ vt = "module" -> IF rc # 0 THEN "except" ELSE "post"
      [] f = "validation" /\ vt # "module" -> "post"
      [] OTHER -> IF rc # 0 THEN "wfail" ELSE "post"

\* Where the runner goes after it has written "failed" for a non-zero code:
\* run_kpm has no return there and goes on to read the results.
AfterWriteFailed(f) == IF f = "kpm" THEN "post" ELSE "done"

AfterStatic(f) == IF f = "validation" THEN "read" ELSE "begin"

Locked(pc) ==
    CASE pc = "begin"  -> "begin_l"
      [] pc = "wfail"  -> "wfail_l"
      [] pc = "wdone"  -> "wdone_l"
      [] pc = "except" -> "except_l"

\* if _STATUS.get("static-...") is True
AlreadyBuiltNever(flag) == FALSE
AlreadyBuilt(flag) == flag = "true"

\* How a build attempt can end: Popen raises (-1), the script exits with code
\* 0 or 1, or - generate_ranking_input_networks.py only - the script never
\* exits (2): its "while True" loop polls the graph job until its status is
\* "completed", which a failed graph job never gets.
StaticOutcomes(f) == IF f \in {"trustrank", "closeness"} THEN {-1, 0, 1, 2} ELSE {-1, 0, 1}

\* if p.returncode == 0: _STATUS[...] = True  else: _STATUS[...] = False
FlagAfterAlwaysTrue(out) == "true"
FlagAfter(out) == IF out = 0 THEN "true" ELSE "false"

\* generate_ranking_static_files / generate_validation_static_files, from
\* _STATIC_*_LOCK.acquire() to the release: the flag check and, if the flag
\* is not True, the build subprocess.  When Popen raises, or while
\* p.communicate() does not return, the lock is not released.  A non-zero
\* exit only sets the flag to False.
GenerateStaticFiles(t) ==
    /\ tasks[t].pc = "static"
    /\ staticLock = Free
    /\ IF AlreadyBuilt(staticFlag)
       THEN /\ tasks' = [tasks EXCEPT ![t].pc = AfterStatic(fam)]
            /\ skippedUnbuilt' = (skippedUnbuilt \/ builds = 0)
            /\ UNCHANGED <<staticLock, staticFlag, builds>>
       ELSE /\ \E out \in StaticOutcomes(fam) :
                 CASE out = -1 ->
                        /\ tasks' = [tasks EXCEPT ![t].pc = "except", ![t].exc = "msg",
                                                  ![t].raised = TRUE]
                        /\ staticLock' = TaskId(t)
                        /\ UNCHANGED <<staticFlag, builds>>
                   [] out = 2 ->
                        /\ tasks' = [tasks EXCEPT ![t].pc = "static_wait"]
                        /\ staticLock' = TaskId(t)
                        /\ UNCHANGED <<staticFlag, builds>>
                   [] OTHER ->
                        /\ staticFlag' = FlagAfter(out)
                        /\ builds' = IF out = 0 THEN builds + 1 ELSE builds
                        /\ tasks' = [tasks EXCEPT ![t].pc = AfterStatic(fam)]
                        /\ UNCHANGED staticLock
            /\ UNCHANGED skippedUnbuilt
    /\ UNCHANGED <<fam, raw, ret, resp, rank, store, lock, calls, nextUid, written, overlap>>

\* validation runners: details = find_one({"uid": uid}) outside the lock
RunRead(t) ==
    /\ tasks[t].pc = "read"
    /\ tasks' = IF FindUid(store, tasks[t].uid) = 0
                THEN [tasks EXCEPT ![t].pc = "except", ![t].exc = "msg", ![t].raised = TRUE]
                ELSE [tasks EXCEPT ![t].pc = "begin"]
    /\ UNCHANGED <<fam, raw, ret, resp, rank, skippedUnbuilt, store, lock, staticLock, staticFlag, calls, nextUid, builds, written, overlap>>

\* with _X_COLL_LOCK:  (entering a block of the runner or of its wrapper)
RunAcquire(t) ==
    /\ tasks[t].pc \in {"begin", "wfail", "wdone", "except"}
    /\ lock[LockOf(fam, tasks[t].proc)] = Free
    /\ lock' = [lock EXCEPT ![LockOf(fam, tasks[t].proc)] = TaskId(t)]
    /\ tasks' = [tasks EXCEPT ![t].pc = Locked(tasks[t].pc)]
    /\ UNCHANGED <<fam, raw, ret, resp, rank, skippedUnbuilt, store, staticLock, staticFlag, calls, nextUid, builds, written, overlap>>

\* resubmit_job hands graph_constructor_wrapper the uid string where
\* graph_builder hands it the query dict: query["uid"] then raises TypeError.
BadArgument(f, re) == f = "graphs" /\ re

\* The end of the runner's "with _X_COLL_LOCK:" block around the lookup and
\* the "running" write: the lock is released, also when the block raises.
LeaveRunningBlockHolding(l, f, p) == l
LeaveRunningBlock(l, f, p) == [l EXCEPT ![LockOf(f, p)] = Free]

\* details = find_one({"uid": uid}); if not details: raise;
\* update_one({"uid": uid}, {"$set": {"status": "running"}})   (block ends)
\* The validation and graph runners do no lookup inside the block.
RunSetRunning(t) ==
    /\ tasks[t].pc = "begin_l"
    /\ LET u == tasks[t].uid IN
       IF \/ fam \notin {"validation", "graphs"} /\ FindUid(store, u) = 0
          \/ BadArgument(fam, tasks[t].re)
       THEN /\ tasks' = [tasks EXCEPT ![t].pc = "except", ![t].raised = TRUE,
                                      ![t].exc = IF fam = "bicon" THEN "empty" ELSE "msg"]
            /\ UNCHANGED <<store, written>>
       ELSE /\ store' = SetStatus(store, u, RunningStatus(fam))
            /\ written' = Record(written, store, u, RunningStatus(fam))
            /\ tasks' = [tasks EXCEPT ![t].pc = "exec", ![t].wroteRunning = TRUE]
    /\ lock' = LeaveRunningBlock(lock, fam, tasks[t].proc)
    /\ UNCHANGED <<fam, raw, ret, resp, rank, skippedUnbuilt, staticLock, staticFlag, calls, nextUid, builds, overlap>>

Outcomes(f) == IF f = "graphs" THEN {-1, 0} ELSE {-1, 0, 1}

\* The work between the "running" write and the next write: input files are
\* prepared (may raise: out = -1), then the external computation returns its
\* code (subprocess.call, Popen.communicate, queue_and_wait_for_task; for the
\* graph builder the in-process construction, code 0 when it does not raise).
RunExternal(t) ==
    /\ tasks[t].pc = "exec"
    /\ \E out \in Outcomes(fam) :
         IF out = -1
         THEN \E e \in RaiseKinds(fam) :
                tasks' = [tasks EXCEPT ![t].pc = "except", ![t].exc = e, ![t].raised = TRUE]
         ELSE LET nxt == AfterReturn(fam, ReqOfUid(tasks[t].uid).vt, out) IN
              tasks' = [tasks EXCEPT ![t].rc = out, ![t].pc = nxt,
                                     ![t].exc = IF nxt = "except" THEN "msg" ELSE @,
                                     ![t].raised = IF nxt = "except" THEN TRUE ELSE @]
    /\ UNCHANGED <<fam, raw, ret, resp, rank, skippedUnbuilt, store, lock, staticLock, staticFlag, calls, nextUid, builds, written, overlap>>

\* Families whose successful run stores a result payload always / sometimes.
PayloadChoices(f) ==
    CASE f \in {"robust"} -> {FALSE}
      [] f \in {"trustrank", "closeness"} -> {FALSE, TRUE}
      [] OTHER -> {TRUE}

\* Post-processing of the output files: succeeds (with or without a result
\* payload), raises, or - BiCoN only - the zip subprocess exits non-zero.
RunPostProcess(t) ==
    /\ tasks[t].pc = "post"
    /\ \/ \E pl \in PayloadChoices(fam) :
            tasks' = [tasks EXCEPT ![t].pc = "wdone", ![t].payload = pl]
       \/ \E e \in RaiseKinds(fam) :
            tasks' = [tasks EXCEPT ![t].pc = "except", ![t].exc = e, ![t].raised = TRUE]
       \/ /\ fam = "bicon"
          /\ tasks' = [tasks EXCEPT ![t].pc = "wfail", ![t].rc = 1]
    /\ UNCHANGED <<fam, raw, ret, resp, rank, skippedUnbuilt, store, lock, staticLock, staticFlag, calls, nextUid, builds, written, overlap>>

\* update_one({"uid": uid}, {"$set": {"status": "failed", "error": "... exit code ..."}})
RunWriteFailed(t) ==
    /\ tasks[t].pc = "wfail_l"
    /\ store' = SetStatusError(store, tasks[t].uid, "failed", "msg")
    /\ written' = Record(written, store, tasks[t].uid, "failed")
    /\ lock' = LeaveBlock(lock, fam, tasks[t].proc)
    /\ tasks' = [tasks EXCEPT ![t].pc = AfterWriteFailed(fam),
                              ![t].endStatus = IF AfterWriteFailed(fam) = "done"
                                               THEN StatusIn(store', tasks[t].uid) ELSE @]
    /\ UNCHANGED <<fam, raw, ret, resp, rank, skippedUnbuilt, staticLock, staticFlag, calls, nextUid, builds, overlap>>

\* update_one({"uid": uid}, {"$set": {"status": "completed", "results": results}})
RunWriteCompleted(t) ==
    /\ tasks[t].pc = "wdone_l"
    /\ store' = SetStatusResult(store, tasks[t].uid, CompletedStatus(fam), tasks[t].payload)
    /\ written' = Record(written, store, tasks[t].uid, CompletedStatus(fam))
    /\ lock' = LeaveBlock(lock, fam, tasks[t].proc)
    /\ tasks' = [tasks EXCEPT ![t].pc = "done", ![t].payload = FALSE,
                              ![t].endStatus = StatusIn(store', tasks[t].uid)]
    /\ UNCHANGED <<fam, raw, ret, resp, rank, skippedUnbuilt, staticLock, staticFlag, calls, nextUid, builds, overlap>>

\* except Exception as E: update_one({"uid": uid}, {"$set": {"status": "failed", "error": f"{E}"}})
\* In the graph wrapper the filter is {"uid": query["uid"]}: with the uid
\* string as argument it raises again and nothing is written.
RunHandleException(t) ==
    /\ tasks[t].pc = "except_l"
    /\ IF BadArgument(fam, tasks[t].re)
       THEN UNCHANGED <<store, written>>
       ELSE /\ store' = SetStatusError(store, tasks[t].uid, "failed", tasks[t].exc)
            /\ written' = Record(written, store, tasks[t].uid, "failed")
    /\ lock' = LeaveBlock(lock, fam, tasks[t].proc)
    /\ tasks' = [tasks EXCEPT ![t].pc = "done", ![t].exc = "none",
                              ![t].endStatus = StatusIn(store', tasks[t].uid)]
    /\ UNCHANGED <<fam, raw, ret, resp, rank, skippedUnbuilt, staticLock, staticFlag, calls, nextUid, builds, overlap>>

Runner ==
    \/ \E t \in Tasks : GenerateStaticFiles(t)
    \/ \E t \in Tasks : RunRead(t)
    \/ \E t \in Tasks : RunAcquire(t)
    \/ \E t \in Tasks : RunSetRunning(t)
    \/ \E t \in Tasks : RunExternal(t)
    \/ \E t \in Tasks : RunPostProcess(t)
    \/ \E t \in Tasks : RunWriteFailed(t)
    \/ \E t \in Tasks : RunWriteCompleted(t)
    \/ \E t \in Tasks : RunHandleException(t)

----------------------------------------------------------------------------
\* Administrative resubmission (admin.resubmit_job)

Resubmitted == {t \in Tasks : tasks[t].re}

\* doc = {k: v for k, v in doc.items() if k in KEEP_KEYS[job_type]};
\* doc["status"] = "submitted"
\* Every KEEP_KEYS set holds "uid" and the fields of the family's canonical
\* request, except that the graph set lacks "version"; none holds "error" or
\* a result field.
ResubmitDocNoUid(d) ==
    [uid |-> 0, req |-> [d.req EXCEPT !.ver = 0], status |-> "submitted",
     error |-> "absent", result |-> FALSE]
ResubmitDoc(d) ==
    [uid |-> d.uid, req |-> [d.req EXCEPT !.ver = 0], status |-> "submitted",
     error |-> "absent", result |-> FALSE]

\* resubmit_job(job_type, uid) in a worker of process p: find_one,
\* replace_one and add_task, with no lock taken and no look at the status.
\* (An unknown job_type or uid raises before anything is written.)
Resubmit(u, p) ==
    /\ fam \in ResubmitFamilies
    /\ Cardinality(Resubmitted) < MaxResubmits
    /\ Runs < MaxRuns
    /\ p \in ProcChoices
    /\ LET i == FindUid(store, u) IN
       /\ i # 0
       /\ store' = [store EXCEPT ![i] = ResubmitDoc(store[i])]
       /\ written' = [written EXCEPT ![u] = Append(@, "submitted")]
       /\ tasks' = Append(tasks, NewTask(u, p, TRUE, store[i].status))
    /\ UNCHANGED <<fam, raw, ret, resp, rank, skippedUnbuilt, lock, staticLock, staticFlag, calls, nextUid, builds, overlap>>

Next ==
    \/ Submit
    \/ Runner
    \/ \E u \in Uids, p \in Procs : Resubmit(u, p)

Spec == Init /\ [][Next]_vars

----------------------------------------------------------------------------
\* Request normalisation: the head of diamond_submit, must_submit,
\* robust_submit, trustrank_submit and closeness_submit, from the request
\* body to the canonical query.  A seed string is a prefix and the rest of the
\* string; every other parameter is the text of its JSON value, "None" when
\* the body leaves it out.

MaxSeeds == 2      \* longest seed list a client sends

CanonFamilies == {"diamond", "must", "robust", "trustrank", "closeness"}

Prefixes == {"", "entrez.", "uniprot."}
SeedIds  == {"1", "P1"}
Seeds    == [pre : Prefixes, id : SeedIds]

SeedLists == UNION {[1..n -> Seeds] : n \in 0..MaxSeeds}

\* str.upper() of a prefix (the ids above have no lower-case letter)
UpperPre(pre) ==
    CASE pre = "entrez."  -> "ENTREZ."
      [] pre = "uniprot." -> "UNIPROT."
      [] OTHER -> pre

Upper(s) == [pre |-> UpperPre(s.pre), id |-> s.id]

\* str.isnumeric()
IsNumeric(s) == s.pre = "" /\ s.id = "1"

\* seed.replace("ENTREZ.", ""), seed.replace("UNIPROT.", "")
StripPrefix(s) == [pre |-> "", id |-> s.id]

\* seed.replace("uniprot.", ""): only the lower-case prefix is removed
ReplaceUniprot(s) == IF s.pre = "uniprot." THEN [pre |-> "", id |-> s.id] ELSE s

\* normalise_seeds_and_determine_type(seeds)
normalise_seeds_and_determine_type(seeds) ==
    LET new_seeds == [i \in DOMAIN seeds |-> Upper(seeds[i])] IN
    IF \A i \in DOMAIN seeds : new_seeds[i].pre = "ENTREZ."
    THEN [seeds |-> [i \in DOMAIN seeds |-> StripPrefix(new_seeds[i])], seed_type |-> "gene"]
    ELSE IF \A i \in DOMAIN seeds : IsNumeric(new_seeds[i])
    THEN [seeds |-> new_seeds, seed_type |-> "gene"]
    ELSE IF \A i \in DOMAIN seeds : new_seeds[i].pre = "UNIPROT."
    THEN [seeds |-> [i \in DOMAIN seeds |-> StripPrefix(new_seeds[i])], seed_type |-> "protein"]
    ELSE [seeds |-> new_seeds, seed_type |-> "protein"]

\* Python orders str by code point: digits, then upper-case letters, then
\* lower-case letters.  The place of a seed string in that order, by its
\* first character and then by the rest.
CodePoint(s) ==
    LET lead == CASE s.pre = "ENTREZ."  -> 1
                  [] s.pre = "UNIPROT." -> 3
                  [] s.pre = "entrez."  -> 4
                  [] s.pre = "uniprot." -> 5
                  [] OTHER -> IF s.id = "1" THEN 0 ELSE 2
        rest == IF s.id = "1" THEN 0 ELSE 1
    IN  2 * lead + rest

RECURSIVE Insert(_, _)
Insert(x, seq) ==
    IF seq = <<>> THEN <<x>>
    ELSE IF CodePoint(x) <= CodePoint(Head(seq)) THEN <<x>> \o seq
    ELSE <<Head(seq)>> \o Insert(x, Tail(seq))

\* sorted(list): every entry is kept, repeated entries included
RECURSIVE Sorted(_)
SortedAsGiven(seq) == seq
Sorted(seq) == IF seq = <<>> THEN <<>> ELSE Insert(Head(seq), Sorted(Tail(seq)))

\* "d if v is None else v"
OrDefaultKeepNone(v, d) == v
OrDefault(v, d) == IF v = "None" THEN d ELSE v

\* The parameters, other than the seeds, a client may put in a request body.
ParamSets(f) ==
    CASE f = "diamond" ->
           [n : {"None", "5"}, alpha : {"None", "1", "2"},
            network : {"None", "DEFAULT", "SHARED_DISORDER", "OTHER"},
            edges : {"None", "all", "limited", "some"}]
      [] f = "must" ->
           [hubpenalty : {"None", "0"}, multiple : {"None", "False"},
            trees : {"None", "10"}, maxit : {"None", "10"},
            network : {"None", "DEFAULT", "SHARED_DISORDER", "OTHER"}]
      [] f = "robust" ->
           [network : {"None", "DEFAULT"},
            initial_fraction : {"None", "0.25", "0.5"},
            reduction_factor : {"None", "0.9", "0.5"},
            num_trees : {"None", "30", "10"}, threshold : {"None", "0.1", "0.5"}]
      [] f = "trustrank" ->
           [damping_factor : {"None", "0.85", "0.5"},
            only_direct_drugs : {"None", "True", "False"},
            only_approved_drugs : {"None", "True", "False"}, N : {"None", "10"}]
      [] f = "closeness" ->
           [only_direct_drugs : {"None", "True", "False"},
            only_approved_drugs : {"None", "True", "False"}, N : {"None", "10"}]

\* A request body: the seeds and the other parameters.
Body(seeds, params) == [seeds |-> seeds] @@ params

\* The request bodies a client may send to a family.
RawReqs(f) == {Body(s, p) : s \in SeedLists, p \in ParamSets(f)}

\* The checks that raise HTTPException(404) before the query is looked up.
Rejects(f, r) ==
    \/ r.seeds = <<>>
    \/ f = "diamond" /\ r.n = "None"
    \/ f = "diamond" /\ OrDefault(r.edges, "all") \notin {"all", "limited"}
    \/ f = "must" /\ "None" \in {r.hubpenalty, r.multiple, r.trees, r.maxit}

\* query = {...}
CanonicalQuery(f, r) ==
    CASE f = "diamond" ->
           LET ns == normalise_seeds_and_determine_type(r.seeds) IN
           [seeds |-> Sorted(ns.seeds), seed_type |-> ns.seed_type, n |-> r.n,
            alpha |-> OrDefault(r.alpha, "1"), network |-> OrDefault(r.network, "DEFAULT"),
            edges |-> OrDefault(r.edges, "all")]
      [] f = "must" ->
           LET ns == normalise_seeds_and_determine_type(r.seeds) IN
           [seeds |-> Sorted(ns.seeds), seed_type |-> ns.seed_type,
            network |-> OrDefault(r.network, "DEFAULT"), hub_penalty |-> r.hubpenalty,
            multiple |-> r.multiple, trees |-> r.trees, maxit |-> r.maxit]
      [] f = "robust" ->
           LET ns == normalise_seeds_and_determine_type(r.seeds) IN
           [seeds |-> Sorted(ns.seeds), seed_type |-> ns.seed_type,
            network |-> OrDefault(r.network, "DEFAULT"),
            initial_fraction |-> OrDefault(r.initial_fraction, "0.25"),
            reduction_factor |-> OrDefault(r.reduction_factor, "0.9"),
            num_trees |-> OrDefault(r.num_trees, "30"),
            threshold |-> OrDefault(r.threshold, "0.1")]
      [] f = "trustrank" ->
           [seed_proteins |-> Sorted([i \in DOMAIN r.seeds |-> ReplaceUniprot(r.seeds[i])]),
            damping_factor |-> OrDefault(r.damping_factor, "0.85"),
            only_direct_drugs |-> OrDefault(r.only_direct_drugs, "True"),
            only_approved_drugs |-> OrDefault(r.only_approved_drugs, "True"), N |-> r.N]
      [] f = "closeness" ->
           [seed_proteins |-> Sorted([i \in DOMAIN r.seeds |-> ReplaceUniprot(r.seeds[i])]),
            only_direct_drugs |-> OrDefault(r.only_direct_drugs, "True"),
            only_approved_drugs |-> OrDefault(r.only_approved_drugs, "True"), N |-> r.N]

\* One submit call run from its first line to its return with no other
\* handler in between: the checks, the canonical query, then find_one and,
\* on a miss, insert_one and add_task.
SubmitRaw(r) ==
    /\ raw' = Append(raw, r)
    /\ IF Rejects(fam, r)
       THEN /\ ret' = Append(ret, 0)
            /\ UNCHANGED <<store, nextUid, tasks, written>>
       ELSE LET q == CanonicalQuery(fam, r)
                i == FindOne(store, q)
                u == nextUid + 1
            IN  IF i # 0
                THEN /\ ret' = Append(ret, store[i].uid)
                     /\ UNCHANGED <<store, nextUid, tasks, written>>
                ELSE /\ ret' = Append(ret, u)
                     /\ nextUid' = u
                     /\ store' = Append(store, NewDoc(u, q))
                     /\ written' = [written EXCEPT ![u] = <<"submitted">>]
                     /\ tasks' = Append(tasks, NewTask(u, 1, FALSE, "none"))
    /\ UNCHANGED <<fam, lock, staticLock, staticFlag, calls, builds, overlap, resp, rank, skippedUnbuilt>>

RECURSIVE Count(_, _)
Count(x, seq) ==
    IF seq = <<>> THEN 0 ELSE (IF Head(seq) = x THEN 1 ELSE 0) + Count(x, Tail(seq))

IsPermutation(a, b) ==
    /\ Len(a) = Len(b)
    /\ \A x \in Seeds : Count(x, a) = Count(x, b)

SameSet(a, b) == {a[i] : i \in DOMAIN a} = {b[i] : i \in DOMAIN b}

Params(r) == DOMAIN r \ {"seeds"}

SameParams(r1, r2) == \A k \in Params(r1) : r1[k] = r2[k]

\* The second body a client sends: the first one again, its seeds in another
\* order, one of its seeds repeated, or one parameter given another value.
Variants(f, r) ==
    {r}
    \cup {[r EXCEPT !.seeds = [i \in DOMAIN r.seeds |-> r.seeds[pi[i]]]] :
             pi \in Permutations(DOMAIN r.seeds)}
    \cup {[r EXCEPT !.seeds = Append(r.seeds, r.seeds[i])] : i \in DOMAIN r.seeds}
    \cup {Body(r.seeds, p) :
             p \in {q \in ParamSets(f) : Cardinality({k \in DOMAIN q : q[k] # r[k]}) = 1}}

CanonInit ==
    /\ Init
    /\ fam \in CanonFamilies

SubmitFirst ==
    /\ raw = <<>>
    /\ \E r \in RawReqs(fam) : SubmitRaw(r)

SubmitVariant ==
    /\ Len(raw) = 1
    /\ \E r \in Variants(fam, raw[1]) : SubmitRaw(r)

CanonNext ==
    \/ SubmitFirst
    \/ SubmitVariant

CanonSpec == CanonInit /\ [][CanonNext]_vars

----------------------------------------------------------------------------
\* Status and download queries (trustrank_status, trustrank_download,
\* graph_details, graph_download, robust_results, ...).  A query handler is a
\* function of the collection and the uid: it is applied to the collections a
\* family can hold.

\* Families with a download / results route.
DownloadFamilies == {"trustrank", "closeness", "diamond", "bicon", "robust", "graphs"}

StatusValues(f) == {"submitted", RunningStatus(f), CompletedStatus(f), "failed"}

\* The entries a collection can hold under uid u: as inserted, as set
\* running, as completed with or without a result payload, as failed.
EntriesOf(f, u) ==
    {[uid |-> u, req |-> r, status |-> st, error |-> e, result |-> res] :
        r \in ReqsOf(f), st \in StatusValues(f), e \in {"absent", "msg"}, res \in BOOLEAN}

Reachable(f, d) ==
    /\ (d.error = "msg") = (d.status = "failed")
    /\ d.result => d.status = CompletedStatus(f)

Collections(f) ==
    UNION {{s \in [1..n -> UNION {EntriesOf(f, u) : u \in Uids}] :
               /\ \A i \in 1..n : s[i].uid = i /\ Reachable(f, s[i])
               /\ \A i, j \in 1..n : i # j => s[i].req # s[j].req} : n \in 0..MaxJobs}

\* The uids a client may ask for: those handed out and one never handed out.
QueryUids == 1..(MaxJobs + 1)

\* find_one returns a copy of the document: result.pop("_id") changes the
\* copy, the collection is as it was.
AfterPopDropped(s, i) == SubSeq(s, 1, i - 1) \o SubSeq(s, i + 1, Len(s))
AfterPop(s, i) == s

\* x_status(uid): result = find_one({"uid": uid}); if not result: return {};
\* result.pop("_id"); return result.  graph_details raises
\* HTTPException(404) where the others return {}.
StatusQuery(u) ==
    /\ LET i == FindUid(store, u) IN
       IF i = 0
       THEN /\ resp' = [kind |-> "status", uid |-> u,
                        code |-> IF fam = "graphs" THEN 404 ELSE 200,
                        doc |-> <<>>, file |-> FALSE]
            /\ UNCHANGED store
       ELSE /\ resp' = [kind |-> "status", uid |-> u, code |-> 200,
                        doc |-> <<store[i]>>, file |-> FALSE]
            /\ store' = AfterPop(store, i)
    /\ UNCHANGED <<fam, lock, staticLock, staticFlag, calls, tasks, nextUid, builds,
                   written, overlap, raw, ret, rank, skippedUnbuilt>>

\* if not result["status"] == "completed": raise HTTPException(404)
IsCompletedAlways(d) == TRUE
IsCompleted(d) == d.status = "completed"

\* x_download(uid) / robust_results / bicon_clustermap / graph_download:
\* one find_one, 404 if there is no entry, 404 if its status is not
\* "completed", else the file is read and returned.
DownloadQuery(u) ==
    /\ fam \in DownloadFamilies
    /\ LET i == FindUid(store, u)
           ok == i # 0 /\ IsCompleted(store[i])
       IN  resp' = [kind |-> "download", uid |-> u, code |-> IF ok THEN 200 ELSE 404,
                    doc |-> <<>>, file |-> ok]
    /\ UNCHANGED <<fam, store, lock, staticLock, staticFlag, calls, tasks, nextUid, builds,
                   written, overlap, raw, ret, rank, skippedUnbuilt>>

ReadInit ==
    /\ fam \in Families
    /\ store \in Collections(fam)
    /\ lock = [l \in LockIds |-> Free]
    /\ staticLock = Free
    /\ staticFlag = "unset"
    /\ calls = [c \in Calls |-> IdleCall]
    /\ tasks = <<>>
    /\ nextUid = Len(store)
    /\ builds = 0
    /\ written = [u \in Uids |-> <<>>]
    /\ overlap = FALSE
    /\ raw = <<>>
    /\ ret = <<>>
    /\ resp = NoQuery
    /\ rank = NoRanking
    /\ skippedUnbuilt = FALSE

ReadNext ==
    \/ \E u \in QueryUids : StatusQuery(u)
    \/ \E u \in QueryUids : DownloadQuery(u)

ReadSpec == ReadInit /\ [][ReadNext]_vars

----------------------------------------------------------------------------
\* Progress of the background tasks.  The families of this specification are
\* those whose runner is followed to its end by the event loop with nothing
\* but locks and subprocesses in its way; no administrative resubmission is
\* made.  A handler that has been entered and a scheduled background task are
\* run on: weak fairness of their steps.  Nothing obliges a client to submit.

LiveFamilies == {"diamond", "must", "domino", "robust", "trustrank", "closeness"}

LiveInit ==
    /\ Init
    /\ fam \in LiveFamilies

ClientSubmits ==
    \E c \in Calls, p \in Procs :
        \E r \in ReqsOf(fam) \cup {InvalidReq(fam)} : SubmitBegin(c, p, r)

HandlerStep ==
    \E c \in Calls : SubmitAcquire(c) \/ SubmitFind(c) \/ SubmitHit(c) \/ SubmitInsert(c)

RunnerStep ==
    \E t \in Tasks :
        \/ GenerateStaticFiles(t)
        \/ RunAcquire(t)
        \/ RunSetRunning(t)
        \/ RunExternal(t)
        \/ RunPostProcess(t)
        \/ RunWriteFailed(t)
        \/ RunWriteCompleted(t)
        \/ RunHandleException(t)

LiveNext ==
    \/ ClientSubmits
    \/ HandlerStep
    \/ RunnerStep

LiveSpec == LiveInit /\ [][LiveNext]_vars /\ WF_vars(HandlerStep) /\ WF_vars(RunnerStep)

----------------------------------------------------------------------------
\* Drug validation requests: drug_validation_submit from the request body to
\* the record it looks up and stores.  A drug identifier is a prefix and the
\* rest of the string; a test drug is a (drug, score) pair.

MaxDrugs == 2      \* longest true_drugs or test_drugs list a client sends

DrugPrefixes == {"", "drugbank."}
DrugIds      == {"DB1", "DB2"}
Drugs        == [pre : DrugPrefixes, id : DrugIds]
Scores       == {1, 2}
TestPairs    == [drug : Drugs, score : Scores]

DrugLists == UNION {[1..n -> Drugs] : n \in 0..MaxDrugs}
PairLists == UNION {[1..n -> TestPairs] : n \in 0..MaxDrugs}

\* The request bodies a client may send; permutations -1 and
\* only_approved_drugs "None" stand for a field the body leaves out.
DrugReqs ==
    [true_drugs : DrugLists, test_drugs : PairLists,
     permutations : {-1, 999, 1000}, only_approved_drugs : {"None", "True"}]

\* f"{prefix}{i}" if not i.startswith(prefix) else i
AddPrefix(d, prefix) == IF d.pre = prefix THEN d ELSE [pre |-> prefix, id |-> d.id]

\* standardize_list(lst, prefix)
standardize_list(lst, prefix) == [i \in DOMAIN lst |-> AddPrefix(lst[i], prefix)]

\* standardize_drugbank_list(lst)
standardize_drugbank_list(lst) == standardize_list(lst, "drugbank.")

\* standardize_drugbank_score_list(lst)
standardize_drugbank_score_list(lst) ==
    [i \in DOMAIN lst |-> [drug |-> AddPrefix(lst[i].drug, "drugbank."), score |-> lst[i].score]]

\* The place of a drug string in the code-point order of str: "DB1" < "DB2"
\* < "drugbank.DB1" < "drugbank.DB2".
DrugCodePoint(d) == (IF d.pre = "" THEN 0 ELSE 2) + (IF d.id = "DB1" THEN 0 ELSE 1)

\* key=lambda i: (i[1], i[0])
PairKey(p) == 4 * p.score + DrugCodePoint(p.drug)

RECURSIVE InsertDrug(_, _)
InsertDrug(x, seq) ==
    IF seq = <<>> THEN <<x>>
    ELSE IF DrugCodePoint(x) <= DrugCodePoint(Head(seq)) THEN <<x>> \o seq
    ELSE <<Head(seq)>> \o InsertDrug(x, Tail(seq))

RECURSIVE InsertPair(_, _)
InsertPair(x, seq) ==
    IF seq = <<>> THEN <<x>>
    ELSE IF PairKey(x) <= PairKey(Head(seq)) THEN <<x>> \o seq
    ELSE <<Head(seq)>> \o InsertPair(x, Tail(seq))

\* sorted(set(lst)): the distinct strings of lst in code-point order
RECURSIVE SortedSet(_)
SortedSet(seq) ==
    IF seq = <<>> THEN <<>>
    ELSE LET rest == SortedSet(Tail(seq)) IN
         IF \E i \in DOMAIN rest : rest[i] = Head(seq) THEN rest
         ELSE InsertDrug(Head(seq), rest)

\* sorted(lst, key=lambda i: (i[1], i[0])): every pair is kept
RECURSIVE SortedPairs(_)
SortedPairs(seq) ==
    IF seq = <<>> THEN <<>> ELSE InsertPair(Head(seq), SortedPairs(Tail(seq)))

\* The checks that raise HTTPException(400).
DrugRejects(r) ==
    \/ r.test_drugs = <<>>
    \/ r.true_drugs = <<>>
    \/ r.permutations = -1
    \/ ~(1000 <= r.permutations /\ r.permutations <= 10000)

\* record = {...}: the lists are sorted as the client wrote them, and the
\* prefix is added afterwards.
DrugRecord(r) ==
    [test_drugs |-> standardize_drugbank_score_list(SortedPairs(r.test_drugs)),
     true_drugs |-> standardize_drugbank_list(SortedSet(r.true_drugs)),
     permutations |-> r.permutations,
     only_approved_drugs |-> r.only_approved_drugs,
     validation_type |-> "drug"]

\* One drug_validation_submit call from its first line to its return with
\* no other handler in between.
DrugSubmit(r) ==
    /\ raw' = Append(raw, r)
    /\ IF DrugRejects(r)
       THEN /\ ret' = Append(ret, 0)
            /\ UNCHANGED <<store, nextUid, tasks, written>>
       ELSE LET record == DrugRecord(r)
                i == FindOne(store, record)
                u == nextUid + 1
            IN  IF i # 0
                THEN /\ ret' = Append(ret, store[i].uid)
                     /\ UNCHANGED <<store, nextUid, tasks, written>>
                ELSE /\ ret' = Append(ret, u)
                     /\ nextUid' = u
                     /\ store' = Append(store, NewDoc(u, record))
                     /\ written' = [written EXCEPT ![u] = <<"submitted">>]
                     /\ tasks' = Append(tasks, NewTask(u, 1, FALSE, "none"))
    /\ UNCHANGED <<fam, lock, staticLock, staticFlag, calls, builds, overlap, resp, rank, skippedUnbuilt>>

\* A drug string written the other way: with the prefix, or without it.
OtherSpelling(d) == [pre |-> IF d.pre = "" THEN "drugbank." ELSE "", id |-> d.id]

\* The second body a client sends: the first one again, one of its lists in
\* another order, one drug spelt the other way, one entry repeated, or another
\* number of permutations.
DrugVariants(r) ==
    {r}
    \cup {[r EXCEPT !.true_drugs = [i \in DOMAIN r.true_drugs |-> r.true_drugs[pi[i]]]] :
             pi \in Permutations(DOMAIN r.true_drugs)}
    \cup {[r EXCEPT !.test_drugs = [i \in DOMAIN r.test_drugs |-> r.test_drugs[pi[i]]]] :
             pi \in Permutations(DOMAIN r.test_drugs)}
    \cup {[r EXCEPT !.true_drugs[i] = OtherSpelling(r.true_drugs[i])] : i \in DOMAIN r.true_drugs}
    \cup {[r EXCEPT !.test_drugs[i].drug = OtherSpelling(r.test_drugs[i].drug)] :
             i \in DOMAIN r.test_drugs}
    \cup {[r EXCEPT !.true_drugs = Append(r.true_drugs, r.true_drugs[i])] : i \in DOMAIN r.true_drugs}
    \cup {[r EXCEPT !.test_drugs = Append(r.test_drugs, r.test_drugs[i])] : i \in DOMAIN r.test_drugs}
    \cup {[r EXCEPT !.permutations = n] : n \in {-1, 999, 1000}}

DrugInit ==
    /\ Init
    /\ fam = "validation"

DrugSubmitFirst ==
    /\ raw = <<>>
    /\ \E r \in DrugReqs : DrugSubmit(r)

DrugSubmitVariant ==
    /\ Len(raw) = 1
    /\ \E r \in DrugVariants(raw[1]) : DrugSubmit(r)

DrugNext ==
    \/ DrugSubmitFirst
    \/ DrugSubmitVariant

DrugSpec == DrugInit /\ [][DrugNext]_vars

----------------------------------------------------------------------------
\* The ranking output: the tail of run_trustrank and run_closeness, from the
\* subprocess's exit with code 0 to the write of the final status, for a job
\* with N set.  The output file is its score column, highest score first; the
\* scores are printed the same way in every row, so two score strings are
\* equal exactly when the scores are.

MaxRows == 4       \* most rows in an output file
MaxN    == 3       \* largest N a request gives

RankFamilies == {"trustrank", "closeness"}

RowScores == {0, 1, 2}

\* The output files: at least one row, no row above the one before it.
ScoreFiles ==
    {f \in UNION {[1..n -> RowScores] : n \in 1..MaxRows} :
        \A i \in 1..(Len(f) - 1) : f[i] >= f[i + 1]}

\* "if float(item["score"]) == 0:" in run_trustrank; run_closeness has
\* "if float(item["score"] == 0):", the float of a comparison of a str with
\* an int, which is never true.
ZeroTest(f, score) == f = "trustrank" /\ score = 0

\* "for _ in range(details["N"]):" with left rounds to go; pos rows have been
\* read.  next(reader) raises StopIteration at the end of the file.
RECURSIVE ForLoop(_, _, _, _, _)
ForLoop(f, rows, pos, left, keep) ==
    IF left = 0 THEN [keep |-> keep, pos |-> pos, exc |-> "none"]
    ELSE IF pos >= Len(rows) THEN [keep |-> keep, pos |-> pos, exc |-> "StopIteration"]
    ELSE IF ZeroTest(f, rows[pos + 1]) THEN [keep |-> keep, pos |-> pos + 1, exc |-> "none"]
    ELSE ForLoop(f, rows, pos + 1, left - 1, Append(keep, rows[pos + 1]))

\* "while True:" that appends the rows tied with lowest_score.
RECURSIVE WhileLoop(_, _, _, _)
WhileLoop(rows, pos, keep, lowest_score) ==
    IF pos >= Len(rows) THEN [keep |-> keep, pos |-> pos, exc |-> "StopIteration"]
    ELSE IF rows[pos + 1] # lowest_score THEN [keep |-> keep, pos |-> pos + 1, exc |-> "none"]
    ELSE WhileLoop(rows, pos + 1, Append(keep, rows[pos + 1]), lowest_score)

\* The "with outfile.open("r") as f:" block: keep, or the exception raised.
KeepRows(f, rows, N) ==
    LET first == ForLoop(f, rows, 0, N, <<>>) IN
    IF first.exc # "none" THEN first
    ELSE IF first.keep = <<>> THEN [keep |-> <<>>, pos |-> first.pos, exc |-> "IndexError"]
    ELSE LET lowest_score == first.keep[Len(first.keep)] IN
         IF lowest_score # 0
         THEN WhileLoop(rows, first.pos, first.keep, lowest_score)
         ELSE first

\* The entry of the one job, which its runner has set to running.
RunningDoc(n) == [NewDoc(1, [N |-> n]) EXCEPT !.status = "running"]

RankInit ==
    /\ fam \in RankFamilies
    /\ rank \in [rows : ScoreFiles, N : 1..MaxN, outcome : {"none"}, keep : {<<>>}]
    /\ store = <<RunningDoc(rank.N)>>
    /\ lock = [l \in LockIds |-> Free]
    /\ staticLock = Free
    /\ staticFlag = "true"
    /\ calls = [c \in Calls |-> IdleCall]
    /\ tasks = <<>>
    /\ nextUid = 1
    /\ builds = 1
    /\ written = [u \in Uids |-> IF u = 1 THEN <<"submitted", "running">> ELSE <<>>]
    /\ overlap = FALSE
    /\ raw = <<>>
    /\ ret = <<>>
    /\ resp = NoQuery
    /\ skippedUnbuilt = FALSE

\* The runner reads the output file and writes the final status: completed
\* with the rows kept or, from the wrapper's except block, failed.
ReadRanking ==
    /\ rank.outcome = "none"
    /\ LET k == KeepRows(fam, rank.rows, rank.N) IN
       IF k.exc = "none"
       THEN /\ rank' = [rank EXCEPT !.outcome = "completed", !.keep = k.keep]
            /\ store' = SetStatusResult(store, 1, "completed", TRUE)
            /\ written' = Record(written, store, 1, "completed")
       ELSE /\ rank' = [rank EXCEPT !.outcome = "failed"]
            /\ store' = SetStatusError(store, 1, "failed", k.exc)
            /\ written' = Record(written, store, 1, "failed")
    /\ UNCHANGED <<fam, lock, staticLock, staticFlag, calls, tasks, nextUid, builds, overlap, raw, ret, resp, skippedUnbuilt>>

RankNext == ReadRanking

RankSpec == RankInit /\ [][RankNext]_vars

----------------------------------------------------------------------------
\* Notions used by the properties

DoneCalls == {c \in Calls : calls[c].pc = "done"}
DoneTasks == {t \in Tasks : tasks[t].pc = "done"}

StatusOf(u) == StatusIn(store, u)

NoDuplicateRequests ==
    \A i, j \in 1..Len(store) : i # j => store[i].req # store[j].req

SameRequestSameUid ==
    \A c, d \in DoneCalls : calls[c].req = calls[d].req => calls[c].uid = calls[d].uid

ScheduledFor(u) == {t \in Tasks : tasks[t].uid = u}

NoResubmission == Resubmitted = {}

\* The status the entry had when the runner's wrapper returned.
StatusAtReturn(t) == tasks[t].endStatus

IsPrefix(a, b) ==
    /\ Len(a) <= Len(b)
    /\ \A i \in 1..Len(a) : a[i] = b[i]

\* Families of the uniform runner shape: lookup and "running" in one lock
\* hold, "failed" and return on a non-zero code, a wrapper catching the rest.
CheckedRunnerFamilies ==
    {"trustrank", "closeness", "diamond", "domino", "robust", "bicon"}

\* A runner execution that saw a non-zero return code / raised after it had
\* written "running".
SawNonZero(t)         == tasks[t].rc > 0
RaisedAfterRunning(t) == tasks[t].raised /\ tasks[t].wroteRunning

----------------------------------------------------------------------------
\* C1: in the families whose submit handler looks up and inserts within one
\* hold of the family's Redis lock, the collection never holds two documents
\* with equal canonical request, under any interleaving of submit calls.
C1_NoDuplicateUnderRedlock ==
    fam \in SingleHoldRedlockFamilies => NoDuplicateRequests

\* C1 witness: two overlapping calls from different worker processes sent the
\* same request to such a family and both returned; one document exists.
C1_Witness ==
    /\ fam \in SingleHoldRedlockFamilies
    /\ overlap
    /\ \E c, d \in DoneCalls :
         /\ c # d
         /\ calls[c].req = calls[d].req
         /\ calls[c].proc # calls[d].proc
    /\ Len(store) = 1

\* C2: BiCoN's find-or-create is atomic: equal concurrent requests never
\* insert two documents and all return the same uid.  (Stated as claimed.)
C2_BiconFindOrCreateAtomic ==
    fam = "bicon" => (NoDuplicateRequests /\ SameRequestSameUid)

\* C3: the DIAMOnD and graph-builder lock excludes workers of different
\* processes, so equal requests never insert two documents.  (As claimed.)
C3_ProcessLocalLockExcludes ==
    fam \in ProcessLocalLockFamilies => NoDuplicateRequests

\* C4: absent resubmission, submit calls with the same canonical request
\* return the same uid and the runner is scheduled exactly once for that
\* uid.  Checked for calls that do not overlap in any family, and for
\* overlapping calls as well in the families of C1.
C4_SameUidScheduledOnce ==
    (NoResubmission /\ (fam \in SingleHoldRedlockFamilies \/ ~overlap)) =>
        /\ SameRequestSameUid
        /\ \A c \in DoneCalls : Cardinality(ScheduledFor(calls[c].uid)) = 1

\* C4 witness: two calls, one after the other, with the same request have
\* both returned.
C4_Witness ==
    /\ NoResubmission
    /\ ~overlap
    /\ \E c, d \in DoneCalls : c # d /\ calls[c].req = calls[d].req /\ calls[c].uid # 0

\* C5: absent resubmission, the statuses written to a job of the six
\* families are a prefix of submitted, running, completed|failed, whichever
\* step fails.  (As claimed.)
C5_StatusSequenceIsPrefix ==
    (fam \in CheckedRunnerFamilies /\ NoResubmission) =>
        \A u \in Uids :
            \/ IsPrefix(written[u], <<"submitted", "running", "completed">>)
            \/ IsPrefix(written[u], <<"submitted", "running", "failed">>)

\* C6: in the six families, a runner that saw a non-zero exit code, or that
\* raised after writing "running", leaves the job's status "failed" when
\* its wrapper returns.
C6_FailureIsRecorded ==
    fam \in CheckedRunnerFamilies =>
        \A t \in DoneTasks :
            (SawNonZero(t) \/ RaisedAfterRunning(t)) => StatusAtReturn(t) = "failed"

\* C6 witness: one finished runner saw a non-zero code, another raised after
\* a zero code.
C6_Witness ==
    /\ fam \in CheckedRunnerFamilies
    /\ \E t, v \in DoneTasks :
         /\ SawNonZero(t) /\ ~tasks[t].raised
         /\ RaisedAfterRunning(v) /\ tasks[v].rc = 0

\* C7: a KPM job whose computation returned a non-zero code ends "failed".
\* (As claimed.)
C7_KpmNonZeroEndsFailed ==
    fam = "kpm" =>
        \A t \in DoneTasks : SawNonZero(t) => StatusAtReturn(t) = "failed"

\* C8: a MuST job whose subprocess exits 0 and whose post-processing does not
\* raise ends with status "completed".  (As claimed.)
C8_MustSuccessEndsCompleted ==
    fam = "must" =>
        \A t \in DoneTasks :
            (tasks[t].rc = 0 /\ ~tasks[t].raised) => StatusAtReturn(t) = "completed"

\* C9: every status in every family's collection is one of submitted,
\* running, completed, failed.  (As claimed.)
C9_StatusDomain ==
    \A i \in 1..Len(store) :
        store[i].status \in {"submitted", "running", "completed", "failed"}

\* C10: a joint or drug validation job whose subprocess exits non-zero ends
\* "failed", whatever the output file holds.  (As claimed.)
C10_ValidationNonZeroEndsFailed ==
    fam = "validation" =>
        \A t \in DoneTasks :
            (ReqOfUid(tasks[t].uid).vt \in {"joint", "drug"} /\ SawNonZero(t))
                => StatusAtReturn(t) = "failed"

\* C11: in every family, an entry whose status is "failed" has an error
\* field that is a non-empty string, however the runner failed.  (As claimed.)
C11_FailedHasNonEmptyError ==
    \A i \in 1..Len(store) : store[i].status = "failed" => store[i].error = "msg"

\* C12: in every reachable collection, an entry has an error field only if
\* its status is "failed" and a result field only if its status is
\* "completed".  (As claimed.)
C12_ErrorAndResultMatchStatus ==
    \A i \in 1..Len(store) :
        /\ store[i].error # "absent" => store[i].status = "failed"
        /\ store[i].result => store[i].status = "completed"

\* C13: in the BiCoN, Closeness, DIAMOnD, TrustRank, MuST and Validation
\* families, the runner scheduled by the resubmission of a failed job writes
\* "running" and has brought the job to "completed" or "failed" when its
\* wrapper returns.  (As claimed; nothing writes the entry after the return,
\* so a return in another status is a job that never reaches a terminal one.)
C13_ResubmittedFailedJobRunsAgain ==
    fam \in {"bicon", "closeness", "diamond", "trustrank", "must", "validation"} =>
        \A t \in DoneTasks :
            (tasks[t].re /\ tasks[t].from = "failed") =>
                /\ tasks[t].wroteRunning
                /\ StatusAtReturn(t) \in {"completed", "failed"}

\* C14: in the graph-builder family, the runner scheduled by a resubmission
\* leaves the job in a terminal state when its wrapper returns.  (As claimed.)
C14_GraphResubmitReachesTerminal ==
    fam = "graphs" =>
        \A t \in DoneTasks :
            tasks[t].re => StatusAtReturn(t) \in {"completed", "failed"}

\* C15: in the families resubmit supports, the entry whose uid a submit call
\* returned keeps the canonical request of that call, so that an equal
\* request still matches it.  (As claimed.)
C15_ResubmitKeepsRequest ==
    fam \in ResubmitFamilies =>
        \A c \in DoneCalls :
            \E i \in 1..Len(store) :
                store[i].uid = calls[c].uid /\ store[i].req = calls[c].req

\* C16: resubmit schedules a runner only for a job it found in a terminal
\* state.  (As claimed.)
C16_ResubmitOnlyWhenTerminal ==
    \A t \in Resubmitted : tasks[t].from \in {"completed", "failed"}

\* Runner executions that are past generate_*_static_files without a raise
\* in it.
PassedStatic ==
    {t \in Tasks : tasks[t].pc \notin {"static", "static_wait"}
                      /\ (tasks[t].raised => tasks[t].wroteRunning)}

\* C17: whatever the number of callers of generate_ranking_static_files (or
\* generate_validation_static_files), at most one build subprocess exits 0,
\* and once one has, the built flag is true for every later caller, which
\* starts no build.
C17_AtMostOneSuccessfulBuild ==
    /\ builds <= 1
    /\ builds = 1 => staticFlag = "true"

\* C17 witness: two runners are past the static-file step, one build exited
\* 0 and the flag is true.
C17_Witness ==
    /\ fam \in StaticFamilies
    /\ builds = 1
    /\ staticFlag = "true"
    /\ Cardinality(PassedStatic) = 2

\* C18: when the static-resource build exits non-zero the flag is not left
\* true and the caller gets an error: while the flag is False (no build has
\* exited 0) no runner has gone on to write "running".  (As claimed.)
C18_BuildFailureStopsRunner ==
    (fam \in StaticFamilies /\ staticFlag = "false") =>
        \A t \in Tasks : ~tasks[t].wroteRunning

\* C19: in every family, no two entries have the same uid, and no step of a
\* submit call, a runner or a resubmission changes the uid of an entry.
C19_UidUniqueAndImmutable ==
    [][/\ \A i, j \in 1..Len(store') : i # j => store'[i].uid # store'[j].uid
       /\ \A i \in 1..Len(store) : store'[i].uid = store[i].uid]_vars

\* C19 witness: a runner scheduled by a resubmission has written "running"
\* and returned, and the entry is still found under its uid.
C19_Witness ==
    \E t \in DoneTasks :
        /\ tasks[t].re
        /\ tasks[t].wroteRunning
        /\ FindUid(store, tasks[t].uid) # 0

\* C20: a submit call rejected for a missing or invalid parameter returns no
\* uid, and neither an entry nor a runner exists for its request.
C20_RejectedSubmitCreatesNothing ==
    /\ \A c \in Calls : calls[c].pc = "rejected" => calls[c].uid = 0
    /\ \A i \in 1..Len(store) : store[i].req.key # 0
    /\ \A t \in Tasks : ReqOfUid(tasks[t].uid).key # 0

\* C20 witness: a call was rejected after another call had created a job;
\* the collection still holds that one entry and one runner was scheduled.
C20_Witness ==
    /\ \E c, d \in Calls :
         /\ d < c
         /\ calls[c].pc = "rejected"
         /\ calls[d].pc = "done"
    /\ Len(store) = 1
    /\ Len(tasks) = 1

----------------------------------------------------------------------------
\* Properties of the request normalisation (CanonSpec)

\* C21: a DIAMOnD or MuST submit whose network is given and is neither
\* DEFAULT nor SHARED_DISORDER raises at submission, and the collection holds
\* no entry with that network.  (As claimed.)
C21_BadNetworkRejectedAtSubmit ==
    \A i \in DOMAIN raw :
        (/\ fam \in {"diamond", "must"}
         /\ raw[i].network \notin {"None", "DEFAULT", "SHARED_DISORDER"}) =>
            /\ ret[i] = 0
            /\ \A j \in 1..Len(store) : store[j].req.network # raw[i].network

\* C22: two DIAMOnD, MuST, TrustRank or Closeness requests with the same
\* parameters whose seed lists are permutations of each other (the same list
\* included) have the same canonical query, and the two calls return the same
\* uid.
C22_PermutedSeedsSameQuery ==
    (/\ fam \in {"diamond", "must", "trustrank", "closeness"}
     /\ Len(raw) = 2
     /\ SameParams(raw[1], raw[2])
     /\ IsPermutation(raw[1].seeds, raw[2].seeds)) =>
        /\ CanonicalQuery(fam, raw[1]) = CanonicalQuery(fam, raw[2])
        /\ ret[1] = ret[2]

\* C22 witness: a DIAMOnD request was accepted, the same seeds were sent in
\* another order, and the second call returned the uid of the one entry.
C22_Witness ==
    /\ fam = "diamond"
    /\ Len(raw) = 2
    /\ raw[1].seeds # raw[2].seeds
    /\ IsPermutation(raw[1].seeds, raw[2].seeds)
    /\ SameParams(raw[1], raw[2])
    /\ ret[1] # 0
    /\ ret[2] = ret[1]
    /\ Len(store) = 1

\* C23: two DIAMOnD or TrustRank requests with the same parameters whose seed
\* lists hold the same set of identifiers, one with repeated entries, have
\* the same canonical query and return the same uid.  (As claimed.)
C23_RepeatedSeedsSameQuery ==
    (/\ fam \in {"diamond", "trustrank"}
     /\ Len(raw) = 2
     /\ SameParams(raw[1], raw[2])
     /\ SameSet(raw[1].seeds, raw[2].seeds)) =>
        /\ CanonicalQuery(fam, raw[1]) = CanonicalQuery(fam, raw[2])
        /\ ret[1] = ret[2]

\* The defaults the documentation gives; "None" where it gives none.
DocumentedDefault(f, k) ==
    CASE f = "trustrank" /\ k = "damping_factor" -> "0.85"
      [] f = "trustrank" /\ k \in {"only_direct_drugs", "only_approved_drugs"} -> "True"
      [] f = "diamond" /\ k = "alpha" -> "1"
      [] f = "diamond" /\ k = "network" -> "DEFAULT"
      [] f = "diamond" /\ k = "edges" -> "all"
      [] f = "robust" /\ k = "initial_fraction" -> "0.25"
      [] f = "robust" /\ k = "reduction_factor" -> "0.9"
      [] f = "robust" /\ k = "num_trees" -> "30"
      [] f = "robust" /\ k = "threshold" -> "0.1"
      [] OTHER -> "None"

\* Two bodies that differ only in leaving out a parameter or giving its
\* documented default.
SameUpToDefaults(f, r1, r2) ==
    /\ r1.seeds = r2.seeds
    /\ \A k \in Params(r1) :
         \/ r1[k] = r2[k]
         \/ {r1[k], r2[k]} = {"None", DocumentedDefault(f, k)}

----------------------------------------------------------------------------
\* Properties of the status and download queries (ReadSpec)

HasCompletedEntry(u) ==
    \E i \in 1..Len(store) : store[i].uid = u /\ store[i].status = "completed"

\* C25: a download / results query returns the artifact only if an entry
\* with the uid exists and its status is completed when the query looks it
\* up; in every other case it answers not-found.
C25_DownloadOnlyWhenCompleted ==
    resp.kind = "download" =>
        IF HasCompletedEntry(resp.uid)
        THEN resp.file /\ resp.code = 200
        ELSE ~resp.file /\ resp.code = 404

\* C25 witness: a download of a completed job returned the file while the
\* collection also holds a job that is not completed.
C25_Witness ==
    /\ resp.kind = "download"
    /\ resp.file
    /\ \E i \in 1..Len(store) : store[i].status # "completed"

\* C26: in every family, the graph builder included, a status query for a
\* uid with no entry answers with an empty mapping and no error.  (As
\* claimed.)
C26_UnknownUidGivesEmptyMapping ==
    (resp.kind = "status" /\ FindUid(store, resp.uid) = 0) =>
        resp.code = 200 /\ resp.doc = <<>>

\* C27: a status or download query leaves the collection as it is, and a
\* status query that follows a status query for the same uid returns the
\* same record.
C27_QueriesAreReadOnly ==
    [][/\ store' = store
       /\ (resp.kind = "status" /\ resp'.kind = "status" /\ resp'.uid = resp.uid)
              => resp' = resp]_vars

\* C27 witness: a status query has returned the record of a completed job.
C27_Witness ==
    /\ resp.kind = "status"
    /\ resp.doc # <<>>
    /\ resp.doc[1].status = "completed"
    /\ resp.doc[1] = store[FindUid(store, resp.uid)]

----------------------------------------------------------------------------
\* Lock discipline of the writers (Spec)

HeldByCall(c) == lock[LockOf(fam, calls[c].proc)] = CallId(c)
HeldByTask(t) == lock[LockOf(fam, tasks[t].proc)] = TaskId(t)

\* C28: every step that changes the collection (insert, status update,
\* result or error update, resubmit reset) is a step of a submit call or of a
\* runner that holds the family lock when it takes the step.  (As claimed.)
C28_WritesHoldFamilyLock ==
    [][store' # store =>
          \/ \E c \in Calls : HeldByCall(c) /\ calls'[c] # calls[c]
          \/ \E t \in Tasks : HeldByTask(t) /\ tasks'[t] # tasks[t]]_vars

\* A runner execution that has written "running" and is in its external
\* computation or in the post-processing of its output.
Executing(t) == tasks[t].pc \in {"exec", "post"}

\* C29: no two runner executions for the same uid are in progress at the
\* same time.  (As claimed.)
C29_OneRunnerPerUid ==
    \A t1, t2 \in Tasks :
        (t1 # t2 /\ tasks[t1].uid = tasks[t2].uid) => ~(Executing(t1) /\ Executing(t2))

\* C30: a runner does not hold the family lock while its external
\* computation or the post-processing runs; it holds it only inside the
\* blocks around the lookup with the "running" write and around each later
\* status write.
C30_LockNotHeldDuringComputation ==
    \A t \in Tasks :
        /\ Executing(t) => ~HeldByTask(t)
        /\ HeldByTask(t) => tasks[t].pc \in {"begin_l", "wfail_l", "wdone_l", "except_l"}

\* C30 witness: a runner is in its external computation while a submit call
\* or another runner holds the family lock it uses.
C30_Witness ==
    \E t \in Tasks :
        /\ tasks[t].pc = "exec"
        /\ lock[LockOf(fam, tasks[t].proc)] # Free

----------------------------------------------------------------------------
\* Release of the locks (Spec)

\* C31: a submit call that has returned or raised, and a runner whose
\* wrapper has returned - also after an exception raised inside a
\* lock-protected block - holds no lock of the family.
C31_FinishedHoldsNoFamilyLock ==
    /\ \A c \in Calls : ~InProgress(c) => \A l \in LockIds : lock[l] # CallId(c)
    /\ \A t \in Tasks : tasks[t].pc = "done" => \A l \in LockIds : lock[l] # TaskId(t)

\* C31 witness: a runner raised inside its first lock-protected block and
\* has returned, a submit call has returned too, and the lock that runner
\* used is now held by another runner.
C31_Witness ==
    \E t, t2 \in Tasks :
        /\ t # t2
        /\ fam \notin StaticFamilies
        /\ tasks[t].pc = "done"
        /\ tasks[t].raised
        /\ ~tasks[t].wroteRunning
        /\ DoneCalls # {}
        /\ tasks[t2].proc = tasks[t].proc
        /\ HeldByTask(t2)

\* C32: a runner that is no longer inside generate_ranking_static_files or
\* generate_validation_static_files - it returned or it raised - does not
\* hold the static-resource lock.  (As claimed.)
C32_StaticLockReleasedOnEveryPath ==
    \A t \in Tasks : tasks[t].pc \notin {"static", "static_wait"} => staticLock # TaskId(t)

\* C35: the built flag is true only if a build subprocess has exited 0, and
\* no call returned at the flag check before one had: a call made while the
\* flag is not true runs the build.
C35_FlagTrueOnlyAfterSuccess ==
    /\ staticFlag = "true" => builds >= 1
    /\ ~skippedUnbuilt

\* C35 witness: a build has exited non-zero (the flag is False, no build has
\* succeeded, its caller has gone on), the lock is free and another runner
\* is about to call the build function.
C35_Witness ==
    /\ staticFlag = "false"
    /\ builds = 0
    /\ staticLock = Free
    /\ PassedStatic # {}
    /\ \E t \in Tasks : tasks[t].pc = "static"

\* C39: the steps of a submit call whose query matches an entry change
\* neither the collection nor the scheduled runners, whatever the status of
\* the entry.
C39_SubmitHitChangesNothing ==
    [][\A c \in Calls :
          (/\ \/ calls[c].pc = "hit"
              \/ calls[c].pc = "find" /\ FindOne(store, calls[c].req) # 0
           /\ calls'[c] # calls[c]) => (store' = store /\ tasks' = tasks)]_vars

\* C39 witness: a job has failed, a later identical submit has returned its
\* uid, and the entry is still failed with the one runner that was scheduled.
C39_Witness ==
    \E c, d \in DoneCalls :
        /\ c # d
        /\ calls[c].uid = calls[d].uid
        /\ calls[c].uid # 0
        /\ StatusOf(calls[c].uid) = "failed"
        /\ Len(tasks) = 1
        /\ tasks[1].pc = "done"

\* C40: no runner holds the static-resource lock and its family lock at the
\* same time.  (As claimed.)
C40_NeverTwoLocks ==
    \A t \in Tasks : ~(staticLock = TaskId(t) /\ HeldByTask(t))

----------------------------------------------------------------------------
\* Progress (LiveSpec)

AtStaticCall(t) ==
    /\ fam \in {"trustrank", "closeness"}
    /\ t \in Tasks
    /\ tasks[t].pc = "static"

PastStaticCall(t) ==
    /\ t \in Tasks
    /\ tasks[t].pc \notin {"static", "static_wait"}

\* C33: every call of generate_ranking_static_files returns or raises: a
\* TrustRank or Closeness runner that is at the call eventually is past it.
\* (As claimed.)
C33_StaticCallReturns ==
    \A t \in 1..MaxRuns : AtStaticCall(t) ~> PastStaticCall(t)

\* C34: every DIAMOnD, MuST, DOMINO and ROBUST entry with status submitted
\* eventually has status completed or failed.  (As claimed.)
C34_SubmittedReachesTerminal ==
    \A u \in Uids :
        [](fam \in {"diamond", "must", "domino", "robust"} /\ StatusOf(u) = "submitted"
              => <>(StatusOf(u) \in {"completed", "failed"}))

----------------------------------------------------------------------------
\* Properties of the seed typing (CanonSpec)

\* A seed that names a gene: it starts with entrez. in either case, or it is
\* purely numeric.
GeneLike(s) == UpperPre(s.pre) = "ENTREZ." \/ IsNumeric(s)

\* C36: for the seed list of every accepted DIAMOnD or MuST request,
\* normalise_seeds_and_determine_type returns type gene with no entrez.
\* prefix left when every seed starts with entrez. or is purely numeric (in
\* any mix), type protein with no uniprot. prefix left when every seed starts
\* with uniprot., and type protein otherwise.  (As claimed.)
C36_SeedTypeAndPrefixes ==
    \A i \in DOMAIN raw :
        (fam \in {"diamond", "must"} /\ ret[i] # 0) =>
            LET seeds == raw[i].seeds
                ns == normalise_seeds_and_determine_type(seeds)
            IN  IF \A k \in DOMAIN seeds : GeneLike(seeds[k])
                THEN /\ ns.seed_type = "gene"
                     /\ \A k \in DOMAIN ns.seeds : ns.seeds[k].pre = ""
                ELSE IF \A k \in DOMAIN seeds : UpperPre(seeds[k].pre) = "UNIPROT."
                THEN /\ ns.seed_type = "protein"
                     /\ \A k \in DOMAIN ns.seeds : ns.seeds[k].pre = ""
                ELSE ns.seed_type = "protein"

----------------------------------------------------------------------------
\* Properties of the drug validation record (DrugSpec)

\* How often a list names a drug, however it is spelt.
TimesNamed(id, lst) == Cardinality({i \in DOMAIN lst : lst[i].id = id})

\* How often a list names a (drug, score) pair, however the drug is spelt.
TimesPaired(id, sc, lst) ==
    Cardinality({i \in DOMAIN lst : lst[i].drug.id = id /\ lst[i].score = sc})

\* Two bodies that name the same true drugs and the same test pairs equally
\* often, in whatever order and spelling, with the same other fields.
SameDrugRequest(r1, r2) ==
    /\ \A id \in DrugIds : TimesNamed(id, r1.true_drugs) = TimesNamed(id, r2.true_drugs)
    /\ \A id \in DrugIds, sc \in Scores :
         TimesPaired(id, sc, r1.test_drugs) = TimesPaired(id, sc, r2.test_drugs)
    /\ r1.permutations = r2.permutations
    /\ r1.only_approved_drugs = r2.only_approved_drugs

\* C37: two accepted drug validation requests that differ only in the order
\* of their true drugs and (drug, score) test pairs and in writing a drug
\* with or without the drugbank. prefix have the same record, and the two
\* calls return the same uid.  (As claimed, for requests without repeated
\* entries and with them.)
C37_EquivalentDrugRequestsSameUid ==
    (/\ Len(raw) = 2
     /\ ret[1] # 0
     /\ SameDrugRequest(raw[1], raw[2])) =>
        /\ DrugRecord(raw[1]) = DrugRecord(raw[2])
        /\ ret[1] = ret[2]

----------------------------------------------------------------------------
\* Properties of the ranking output (RankSpec)

\* The rows whose score is at least the Nth row's score: the whole file when
\* it has fewer than N rows.
RowsAtLeastNth(rows, N) ==
    IF Len(rows) < N THEN rows
    ELSE LET AtLeastNth(score) == score >= rows[N] IN SelectSeq(rows, AtLeastNth)

\* C38: once the TrustRank or Closeness runner has read a score-descending
\* output file of at least one row for a job with N set, the job is
\* completed and the rows stored are exactly those whose score is at least
\* the Nth row's score, for every file length.  (As claimed.)
C38_KeepsRowsDownToNthScore ==
    rank.outcome # "none" =>
        /\ rank.outcome = "completed"
        /\ store[1].status = "completed"
        /\ rank.keep = RowsAtLeastNth(rank.rows, rank.N)

====
